---- MODULE Spec2Model ----
(***************************************************************************)
(* cppcheck_junit.py: one run of main(), from parse_arguments to sys.exit. *)
(*                                                                         *)
(* Python values.  A Python str is a sequence of one-character strings; a  *)
(* value that may be None is <<>> for None and <<s>> for the str s, so     *)
(* that None, the empty str "" and the str "None" are three values.        *)
(***************************************************************************)
EXTENDS Integers, Sequences, FiniteSets, TLC

VARIABLES
    pc,             \* position of the run in main / parse_cppcheck
    bitbucket,      \* args.bitbucket
    error_exitcode, \* args.error_exitcode: <<>> (None) or <<n>>
    version,        \* root.get("version") once the root was read
    doc,            \* the error elements of the document iterated so far
    errors,         \* the defaultdict built by parse_cppcheck, in insertion order
    exc,            \* the exception in flight: its type and message
    raisedIn,       \* the stage that raised it
    tree,           \* the ElementTree built by a generator (<<>> before)
    called,         \* the generators main has called
    current_time,   \* generate_test_suite_bitbucket's local current_time
    emitted,        \* per suite emitted by the Bitbucket loop: clock and host then
    now,            \* the machine's clock
    host,           \* the machine's hostname
    clockReads,     \* calls of datetime.now() so far
    hostReads,      \* calls of gethostname() so far
    outFile,        \* the output path: "absent", "partial" or "complete"
    writes,         \* calls of tree.write so far
    printed,        \* diagnostics printed by main
    outcome,        \* how the run ended ("" while running)
    exitCode        \* the process exit status: <<>> while running, else <<n>>

vars == <<pc, bitbucket, error_exitcode, version, doc, errors, exc, raisedIn,
          tree, called, current_time, emitted, now, host, clockReads, hostReads,
          outFile, writes, printed, outcome, exitCode>>

-----------------------------------------------------------------------------
(* Bounds of the model *)

MaxFindings == 2    \* error elements read from one document
MaxClock == 1       \* ticks of the clock during the report stage

-----------------------------------------------------------------------------
(* Python values and strings *)

None == <<>>
Str(s) == <<s>>
Truthy(v) == v # None /\ v # Str(<<>>)

Digits == <<"0", "1", "2", "3", "4", "5", "6", "7", "8", "9">>
IsDigit(c) == \E i \in 1..10 : Digits[i] = c
DigitVal(c) == (CHOOSE i \in 1..10 : Digits[i] = c) - 1
IsSpace(c) == c \in {" ", "\t", "\n"}

RECURSIVE LStrip(_)
LStrip(s) == IF s # <<>> /\ IsSpace(Head(s)) THEN LStrip(Tail(s)) ELSE s

RECURSIVE RStrip(_)
RStrip(s) ==
    IF s # <<>> /\ IsSpace(s[Len(s)]) THEN RStrip(SubSeq(s, 1, Len(s) - 1)) ELSE s

RECURSIVE DigitsValue(_, _)
DigitsValue(s, acc) ==
    IF s = <<>> THEN acc
    ELSE IF Head(s) = "_" THEN DigitsValue(Tail(s), acc)
    ELSE DigitsValue(Tail(s), 10 * acc + DigitVal(Head(s)))

\* int(s) for a str s: surrounding whitespace, one optional sign, decimal digits
\* with single underscores between them.  ok = FALSE is ValueError.
PyInt(s) ==
    LET t == RStrip(LStrip(s))
        signed == t # <<>> /\ Head(t) \in {"+", "-"}
        body == IF signed THEN Tail(t) ELSE t
        wellFormed ==
            /\ body # <<>>
            /\ \A i \in 1..Len(body) : IsDigit(body[i]) \/ body[i] = "_"
            /\ IsDigit(body[1]) /\ IsDigit(body[Len(body)])
            /\ \A i \in 1..(Len(body) - 1) : ~(body[i] = "_" /\ body[i + 1] = "_")
        magnitude == DigitsValue(body, 0)
    IN  IF ~wellFormed THEN [ok |-> FALSE, val |-> 0]
        ELSE [ok |-> TRUE,
              val |-> IF signed /\ Head(t) = "-" THEN 0 - magnitude ELSE magnitude]

RECURSIVE NatStr(_)
NatStr(n) ==
    IF n < 10 THEN <<Digits[n + 1]>>
    ELSE NatStr(n \div 10) \o <<Digits[(n % 10) + 1]>>

\* str(n) for an int n
PyStr(n) == IF n < 0 THEN <<"-">> \o NatStr(0 - n) ELSE NatStr(n)

\* "{v}" inside an f-string: None is rendered as the four characters None
Format(v) == IF v = None THEN <<"N", "o", "n", "e">> ELSE v[1]

-----------------------------------------------------------------------------
(* os.path *)

Cwd == << <<"w">> >>        \* the working directory /w, as path components

RECURSIVE Split(_, _)
\* s.split("/"), cur being the component under construction
Split(s, cur) ==
    IF s = <<>> THEN <<cur>>
    ELSE IF Head(s) = "/" THEN <<cur>> \o Split(Tail(s), <<>>)
    ELSE Split(Tail(s), Append(cur, Head(s)))

RECURSIVE NormComps(_, _)
\* normpath over the components of an absolute path
NormComps(comps, acc) ==
    IF comps = <<>> THEN acc
    ELSE LET c == Head(comps) IN
         IF c = <<>> \/ c = <<".">> THEN NormComps(Tail(comps), acc)
         ELSE IF c = <<".", ".">>
              THEN NormComps(Tail(comps),
                             IF acc = <<>> THEN acc ELSE SubSeq(acc, 1, Len(acc) - 1))
         ELSE NormComps(Tail(comps), Append(acc, c))

AbsComps(p) ==
    IF p # <<>> /\ Head(p) = "/" THEN NormComps(Split(p, <<>>), <<>>)
    ELSE NormComps(Cwd \o Split(p, <<>>), <<>>)

RECURSIVE CommonLen(_, _)
CommonLen(a, b) ==
    IF a = <<>> \/ b = <<>> \/ Head(a) # Head(b) THEN 0
    ELSE 1 + CommonLen(Tail(a), Tail(b))

RECURSIVE Join(_)
Join(comps) ==
    IF Len(comps) = 1 THEN Head(comps)
    ELSE Head(comps) \o <<"/">> \o Join(Tail(comps))

\* os.path.relpath(p) for a non-empty str p
relpath(p) ==
    LET path_list == AbsComps(p)
        i == CommonLen(Cwd, path_list)
        rel_list == [k \in 1..(Len(Cwd) - i) |-> <<".", ".">>]
                        \o SubSeq(path_list, i + 1, Len(path_list))
    IN  IF rel_list = <<>> THEN <<".">> ELSE Join(rel_list)

\* os.path.basename(p) for a str p
basename(p) == LET comps == Split(p, <<>>) IN comps[Len(comps)]

-----------------------------------------------------------------------------
(* The inputs of a run *)

ExitSuccess == 0    \* ExitStatus.success
ExitFailure == 1    \* ExitStatus.failure; also the status of an uncaught exception

\* argv's error_exitcode: absent, or an integer
ExitCodeArgs == {None, <<3>>}

\* what ElementTree.parse(file_name) meets
InputKinds == {"unreadable", "malformed", "wellformed"}

\* the root's version attribute
Versions ==
    { None,
      Str(<<"2">>), Str(<<"0", "2">>),
      Str(<<"1">>), Str(<<"3">>), Str(<<" ", "3">>),
      Str(<<"2", ".", "0">>), Str(<<>>) }

\* the hostname of the machine, before and after it is renamed
Host1 == <<"h", "1">>
Host2 == <<"h", "2">>

FileA == <<"a", ".", "c">>
FileB == <<".", "/", "s", "/", "b", ".", "c">>
Warning == <<"w", "a", "r", "n", "i", "n", "g">>

\* the location child of an error element: absent, or its file and line attributes
Locations ==
    { None,
      <<[file |-> Str(FileA), line |-> Str(<<"7">>)]>>,
      <<[file |-> Str(FileB), line |-> Str(<<"4", "2">>)]>>,
      <<[file |-> None, line |-> Str(<<"7">>)]>>,
      <<[file |-> Str(FileA), line |-> None]>>,
      <<[file |-> Str(FileA), line |-> Str(<<"x">>)]>> }

\* the msg, severity, id and verbose attributes of an error element
Attributes ==
    { [msg |-> Str(<<"X">>), severity |-> Str(Warning),
       id |-> Str(<<"f", "o", "o">>), verbose |-> Str(<<"V">>)],
      [msg |-> None, severity |-> Str(Warning),
       id |-> None, verbose |-> Str(<<"V">>)],
      [msg |-> Str(<<"X">>), severity |-> None,
       id |-> Str(<<"f", "o", "o">>), verbose |-> None] }

ErrorElements ==
    { [location |-> l, msg |-> a.msg, severity |-> a.severity,
       id |-> a.id, verbose |-> a.verbose] : l \in Locations, a \in Attributes }

-----------------------------------------------------------------------------
(* parse_cppcheck *)

CppcheckError(file, line, message, severity, error_id, verbose) ==
    [file |-> file, line |-> line, message |-> message, severity |-> severity,
     error_id |-> error_id, verbose |-> verbose]

\* the keys of the mapping, in iteration order
Keys(d) == [i \in 1..Len(d) |-> d[i].key]

HasKey(d, k) == \E i \in 1..Len(d) : d[i].key = k

\* a variant of DictAppend: the finding goes to the front of its file's list
DictPrepend(d, error) ==
    IF HasKey(d, error.file)
    THEN [i \in 1..Len(d) |->
            IF d[i].key = error.file
            THEN [key |-> d[i].key, val |-> <<error>> \o d[i].val]
            ELSE d[i]]
    ELSE Append(d, [key |-> error.file, val |-> <<error>>])

\* errors[error.file].append(error) on a defaultdict(list)
DictAppend(d, error) ==
    IF HasKey(d, error.file)
    THEN [i \in 1..Len(d) |->
            IF d[i].key = error.file
            THEN [key |-> d[i].key, val |-> Append(d[i].val, error)]
            ELSE d[i]]
    ELSE Append(d, [key |-> error.file, val |-> <<error>>])

\* a variant of UnsupportedVersion: later versions pass
UnsupportedVersionBelow(n) == n < 2

\* the test of line 77, given that the attribute is present and an integer
UnsupportedVersion(n) == n # 2

\* what the version check does with the value of root.get("version")
VersionCheck(v) ==
    IF v = None THEN "unsupported"
    ELSE IF ~PyInt(v[1]).ok THEN "invalid_literal"
    ELSE IF UnsupportedVersion(PyInt(v[1]).val) THEN "unsupported"
    ELSE "ok"

NoException == [type |-> "", msg |-> ""]

Raise(type, msg, stage) ==
    /\ pc' = "raised"
    /\ exc' = [type |-> type, msg |-> msg]
    /\ raisedIn' = stage

Init ==
    /\ pc = "start"
    /\ bitbucket \in BOOLEAN
    /\ error_exitcode \in ExitCodeArgs
    /\ version = None
    /\ doc = <<>>
    /\ errors = <<>>
    /\ exc = NoException
    /\ raisedIn = ""
    /\ tree = <<>>
    /\ called = {}
    /\ current_time = None
    /\ emitted = <<>>
    /\ now = 0
    /\ host = Host1
    /\ clockReads = 0
    /\ hostReads = 0
    /\ outFile = "absent"
    /\ writes = 0
    /\ printed = <<>>
    /\ outcome = ""
    /\ exitCode = None

\* line 75: ElementTree.parse(file_name).getroot()
ParseXml ==
    /\ pc = "start"
    /\ \E kind \in InputKinds :
        \/ /\ kind = "unreadable"
           /\ Raise("IOError", "no such file", "parse")
           /\ UNCHANGED version
        \/ /\ kind = "malformed"
           /\ Raise("ParseError", "not well-formed", "parse")
           /\ UNCHANGED version
        \/ /\ kind = "wellformed"
           /\ \E v \in Versions : version' = v
           /\ pc' = "version"
           /\ UNCHANGED <<exc, raisedIn>>
    /\ UNCHANGED <<bitbucket, error_exitcode, doc, errors, tree, called,
                   current_time, emitted, now, host, clockReads, hostReads,
                   outFile, writes, printed, outcome, exitCode>>

\* lines 77-78
CheckVersion ==
    /\ pc = "version"
    /\ IF VersionCheck(version) = "ok"
       THEN pc' = "find_errors" /\ UNCHANGED <<exc, raisedIn>>
       ELSE IF VersionCheck(version) = "unsupported"
       THEN Raise("ValueError", "only supports version 2", "parse")
       ELSE Raise("ValueError", "invalid literal for int()", "parse")
    /\ UNCHANGED <<bitbucket, error_exitcode, version, doc, errors, tree, called,
                   current_time, emitted, now, host, clockReads, hostReads,
                   outFile, writes, printed, outcome, exitCode>>

\* lines 80-83: root.find("errors"), then iter() of what it returned
FindErrors ==
    /\ pc = "find_errors"
    /\ \E hasErrors \in BOOLEAN :
        IF hasErrors
        THEN pc' = "loop" /\ errors' = <<>> /\ UNCHANGED <<exc, raisedIn>>
        ELSE Raise("TypeError", "NoneType is not iterable", "parse") /\ UNCHANGED errors
    /\ UNCHANGED <<bitbucket, error_exitcode, version, doc, tree, called,
                   current_time, emitted, now, host, clockReads, hostReads,
                   outFile, writes, printed, outcome, exitCode>>

\* lines 83-100: one iteration of the loop over error_root
ReadError ==
    /\ pc = "loop"
    /\ Len(doc) < MaxFindings
    /\ \E e \in ErrorElements :
        /\ doc' = Append(doc, e)
        /\ IF e.location = None
           THEN /\ errors' = DictAppend(errors,
                    CppcheckError(Str(<<>>), 0, e.msg, e.severity, e.id, e.verbose))
                /\ UNCHANGED <<pc, exc, raisedIn>>
           ELSE LET loc == e.location[1] IN
                IF loc.line = None
                THEN Raise("TypeError", "int() argument is None", "parse") /\ UNCHANGED errors
                ELSE IF ~PyInt(loc.line[1]).ok
                THEN Raise("ValueError", "invalid literal for int()", "parse")
                     /\ UNCHANGED errors
                ELSE /\ errors' = DictAppend(errors,
                          CppcheckError(loc.file, PyInt(loc.line[1]).val,
                                        e.msg, e.severity, e.id, e.verbose))
                     /\ UNCHANGED <<pc, exc, raisedIn>>
    /\ UNCHANGED <<bitbucket, error_exitcode, version, tree, called,
                   current_time, emitted, now, host, clockReads, hostReads,
                   outFile, writes, printed, outcome, exitCode>>

\* line 102: the loop is exhausted, parse_cppcheck returns errors to main
ReturnErrors ==
    /\ pc = "loop"
    /\ pc' = "parsed"
    /\ UNCHANGED <<bitbucket, error_exitcode, version, doc, errors, exc, raisedIn,
                   tree, called, current_time, emitted, now, host, clockReads,
                   hostReads, outFile, writes, printed, outcome, exitCode>>

-----------------------------------------------------------------------------
(* The environment the generators read *)

\* datetime.isoformat(t) of the clock value t
isoformat(t) == <<"T">> \o PyStr(t)

\* the clock advances while the report is generated
Tick ==
    /\ pc \in {"parsed", "bb_loop"}
    /\ now < MaxClock
    /\ now' = now + 1
    /\ UNCHANGED <<pc, bitbucket, error_exitcode, version, doc, errors, exc,
                   raisedIn, tree, called, current_time, emitted, host,
                   clockReads, hostReads, outFile, writes, printed, outcome,
                   exitCode>>

\* the machine is renamed while the report is generated
Rename ==
    /\ pc \in {"parsed", "bb_loop"}
    /\ host = Host1
    /\ host' = Host2
    /\ UNCHANGED <<pc, bitbucket, error_exitcode, version, doc, errors, exc,
                   raisedIn, tree, called, current_time, emitted, now,
                   clockReads, hostReads, outFile, writes, printed, outcome,
                   exitCode>>

-----------------------------------------------------------------------------
(* The generators *)

CppcheckErrorName == <<"C", "p", "p", "c", "h", "e", "c", "k", " ", "e", "r", "r", "o", "r">>
CppcheckErrorsName == <<"C", "p", "p", "c", "h", "e", "c", "k", " ", "e", "r", "r", "o", "r", "s">>
CppcheckSuccessName == <<"C", "p", "p", "c", "h", "e", "c", "k", " ", "s", "u", "c", "c", "e", "s", "s">>

Element(tag, attrib, children) ==
    [tag |-> tag, attrib |-> attrib, children |-> children]

\* lines 175-182: the error element of one finding, standard variant
standard_error(error) ==
    Element("error",
        [type |-> Str(<<>>),
         file |-> IF Truthy(error.file) THEN Str(relpath(error.file[1])) ELSE Str(<<>>),
         line |-> Str(PyStr(error.line)),
         message |-> Str(PyStr(error.line) \o <<":", " ", "(">> \o Format(error.severity)
                         \o <<")", " ">> \o Format(error.message))],
        <<>>)

\* lines 167-173: the testcase of one file, standard variant
standard_test_case(file_name, errs) ==
    Element("testcase",
        [name |-> IF Truthy(file_name) THEN Str(relpath(file_name[1]))
                  ELSE Str(CppcheckErrorName),
         classname |-> Str(CppcheckErrorName),
         time |-> Str(PyStr(1))],
        [j \in 1..Len(errs) |-> standard_error(errs[j])])

\* lines 157-184, with the clock value t and the hostname h it reads
generate_test_suite(d, t, h) ==
    Element("testsuite",
        [name |-> Str(CppcheckErrorsName),
         timestamp |-> Str(isoformat(t)),
         hostname |-> Str(h),
         tests |-> Str(PyStr(Len(d))),
         failures |-> Str(PyStr(0)),
         errors |-> Str(PyStr(Len(d))),
         time |-> Str(PyStr(1))],
        [i \in 1..Len(d) |-> standard_test_case(d[i].key, d[i].val)])

\* lines 128-143: the testcase of one finding, Bitbucket variant (file_name a str)
bitbucket_test_case(file_name, error) ==
    Element("testcase",
        [classname |-> Str(<<"(">> \o Format(error.severity) \o <<")">>),
         name |-> Str(basename(file_name[1]) \o <<":">> \o PyStr(error.line)),
         line |-> Str(PyStr(error.line))],
        << Element("error",
             [type |-> error.severity,
              file |-> IF Truthy(error.file) THEN Str(relpath(error.file[1]))
                       ELSE Str(<<>>),
              line |-> Str(PyStr(error.line)),
              message |-> error.message],
             <<>>) >>)

\* a variant of bitbucket_test_suite: the counters hold the size of the mapping
bitbucket_test_suite_counting_files(file_name, errs, t, h) ==
    Element("testsuite",
        [name |-> IF Truthy(file_name) THEN Str(relpath(file_name[1]))
                  ELSE Str(CppcheckErrorName),
         timestamp |-> t,
         hostname |-> Str(h),
         tests |-> Str(PyStr(Len(errors))),
         failures |-> Str(PyStr(0)),
         errors |-> Str(PyStr(Len(errors))),
         time |-> Str(PyStr(1))],
        [j \in 1..Len(errs) |-> bitbucket_test_case(file_name, errs[j])])

\* a variant of bitbucket_test_suite: the clock is read again for each suite
bitbucket_test_suite_fresh_timestamp(file_name, errs, t, h) ==
    Element("testsuite",
        [name |-> IF Truthy(file_name) THEN Str(relpath(file_name[1]))
                  ELSE Str(CppcheckErrorName),
         timestamp |-> Str(isoformat(now)),
         hostname |-> Str(h),
         tests |-> Str(PyStr(Len(errs))),
         failures |-> Str(PyStr(0)),
         errors |-> Str(PyStr(Len(errs))),
         time |-> Str(PyStr(1))],
        [j \in 1..Len(errs) |-> bitbucket_test_case(file_name, errs[j])])

\* lines 116-143: the testsuite of one file, Bitbucket variant, with the value t of
\* current_time and the hostname h read for it
bitbucket_test_suite(file_name, errs, t, h) ==
    Element("testsuite",
        [name |-> IF Truthy(file_name) THEN Str(relpath(file_name[1]))
                  ELSE Str(CppcheckErrorName),
         timestamp |-> t,
         hostname |-> Str(h),
         tests |-> Str(PyStr(Len(errs))),
         failures |-> Str(PyStr(0)),
         errors |-> Str(PyStr(Len(errs))),
         time |-> Str(PyStr(1))],
        [j \in 1..Len(errs) |-> bitbucket_test_case(file_name, errs[j])])

\* a variant of generate_single_success_test_suite: the case is not counted
generate_single_success_test_suite_uncounted(t, h) ==
    Element("testsuite",
        [name |-> Str(CppcheckErrorsName),
         timestamp |-> Str(isoformat(t)),
         hostname |-> Str(h),
         tests |-> Str(PyStr(0)),
         failures |-> Str(PyStr(0)),
         errors |-> Str(PyStr(0)),
         time |-> Str(PyStr(1))],
        << Element("testcase",
             [name |-> Str(CppcheckSuccessName),
              classname |-> Str(CppcheckSuccessName),
              time |-> Str(PyStr(1))],
             <<>>) >>)

\* lines 189-200, with the clock value t and the hostname h it reads
generate_single_success_test_suite(t, h) ==
    Element("testsuite",
        [name |-> Str(CppcheckErrorsName),
         timestamp |-> Str(isoformat(t)),
         hostname |-> Str(h),
         tests |-> Str(PyStr(1)),
         failures |-> Str(PyStr(0)),
         errors |-> Str(PyStr(0)),
         time |-> Str(PyStr(1))],
        << Element("testcase",
             [name |-> Str(CppcheckSuccessName),
              classname |-> Str(CppcheckSuccessName),
              time |-> Str(PyStr(1))],
             <<>>) >>)

RECURSIVE Serializable(_)
\* tree.write serializes an element when every attribute value is a str
Serializable(e) ==
    /\ \A k \in DOMAIN e.attrib : e.attrib[k] # None
    /\ \A i \in 1..Len(e.children) : Serializable(e.children[i])

-----------------------------------------------------------------------------
(* main *)

\* sys.exit(main()): None exits with status 0
SysExit(ret) == IF ret = None THEN 0 ELSE ret[1]

Halt(how, ret) ==
    /\ pc' = "halted"
    /\ outcome' = how
    /\ exitCode' = <<SysExit(ret)>>

\* a variant of Except: the handler opens the output file before it returns
ExceptTouchingOutput ==
    /\ pc = "raised"
    /\ raisedIn = "parse"
    /\ exc.type \in {"ValueError", "IOError", "ParseError"}
    /\ printed' = Append(printed, exc.msg)
    /\ outFile' = "partial"
    /\ writes' = writes + 1
    /\ Halt("ParseFailure", <<ExitFailure>>)
    /\ UNCHANGED <<bitbucket, error_exitcode, version, doc, errors, exc, raisedIn,
                   tree, called, current_time, emitted, now, host, clockReads,
                   hostReads>>

\* lines 213-221: the except clauses around parse_cppcheck
Except ==
    /\ pc = "raised"
    /\ raisedIn = "parse"
    /\ exc.type \in {"ValueError", "IOError", "ParseError"}
    /\ printed' = Append(printed, exc.msg)
    /\ Halt("ParseFailure", <<ExitFailure>>)
    /\ UNCHANGED <<bitbucket, error_exitcode, version, doc, errors, exc, raisedIn,
                   tree, called, current_time, emitted, now, host, clockReads,
                   hostReads, outFile, writes>>

\* an exception no except clause of main names ends the process with a traceback
Uncaught ==
    /\ pc = "raised"
    /\ ~(raisedIn = "parse" /\ exc.type \in {"ValueError", "IOError", "ParseError"})
    /\ Halt("Crash", <<ExitFailure>>)
    /\ UNCHANGED <<bitbucket, error_exitcode, version, doc, errors, exc, raisedIn,
                   tree, called, current_time, emitted, now, host, clockReads,
                   hostReads, outFile, writes, printed>>

\* lines 223-224, standard variant: generate_test_suite(errors)
GenerateTestSuite ==
    /\ pc = "parsed"
    /\ Len(errors) > 0
    /\ ~bitbucket
    /\ tree' = generate_test_suite(errors, now, host)
    /\ called' = called \cup {"generate_test_suite"}
    /\ clockReads' = clockReads + 1
    /\ hostReads' = hostReads + 1
    /\ pc' = "write_report"
    /\ UNCHANGED <<bitbucket, error_exitcode, version, doc, errors, exc, raisedIn,
                   current_time, emitted, now, host, outFile, writes, printed,
                   outcome, exitCode>>

\* lines 223-224 and 113-114: generate_test_suite_bitbucket(errors) is entered
BitbucketStart ==
    /\ pc = "parsed"
    /\ Len(errors) > 0
    /\ bitbucket
    /\ current_time' = Str(isoformat(now))
    /\ clockReads' = clockReads + 1
    /\ tree' = Element("testsuites", <<>>, <<>>)
    /\ called' = called \cup {"generate_test_suite_bitbucket"}
    /\ pc' = "bb_loop"
    /\ UNCHANGED <<bitbucket, error_exitcode, version, doc, errors, exc, raisedIn,
                   emitted, now, host, hostReads, outFile, writes, printed,
                   outcome, exitCode>>

\* lines 115-145: one iteration of the loop over errors.items(); the function
\* returns after the last one
BitbucketSuite ==
    /\ pc = "bb_loop"
    /\ LET i == Len(tree.children) + 1
           file_name == errors[i].key
       IN  /\ hostReads' = hostReads + 1
           /\ emitted' = Append(emitted, [clock |-> now, host |-> host])
           /\ IF file_name = None
              THEN /\ Raise("TypeError", "basename of None", "build")
                   /\ UNCHANGED tree
              ELSE /\ tree' = [tree EXCEPT !.children = Append(@,
                          bitbucket_test_suite(file_name, errors[i].val,
                                               current_time, host))]
                   /\ pc' = IF i = Len(errors) THEN "write_report" ELSE "bb_loop"
                   /\ UNCHANGED <<exc, raisedIn>>
    /\ UNCHANGED <<bitbucket, error_exitcode, version, doc, errors, called,
                   current_time, now, host, clockReads, outFile, writes, printed,
                   outcome, exitCode>>

\* tree.write(args.output_file, ...): the file is opened for writing, then the
\* tree is serialized into it
TreeWrite(how, ret) ==
    /\ writes' = writes + 1
    /\ IF Serializable(tree)
       THEN /\ outFile' = "complete"
            /\ Halt(how, ret)
            /\ UNCHANGED <<exc, raisedIn>>
       ELSE /\ outFile' = "partial"
            /\ Raise("TypeError", "cannot serialize None", "write")
            /\ UNCHANGED <<outcome, exitCode>>

\* lines 225-226
WriteReport ==
    /\ pc = "write_report"
    /\ TreeWrite("FindingsReported", error_exitcode)
    /\ UNCHANGED <<bitbucket, error_exitcode, version, doc, errors, tree, called,
                   current_time, emitted, now, host, clockReads, hostReads,
                   printed>>

\* lines 227-228: generate_single_success_test_suite()
GenerateSuccess ==
    /\ pc = "parsed"
    /\ ~(Len(errors) > 0)
    /\ tree' = generate_single_success_test_suite(now, host)
    /\ called' = called \cup {"generate_single_success_test_suite"}
    /\ clockReads' = clockReads + 1
    /\ hostReads' = hostReads + 1
    /\ pc' = "write_success"
    /\ UNCHANGED <<bitbucket, error_exitcode, version, doc, errors, exc, raisedIn,
                   current_time, emitted, now, host, outFile, writes, printed,
                   outcome, exitCode>>

\* lines 229-230
WriteSuccess ==
    /\ pc = "write_success"
    /\ TreeWrite("NoFindings", <<ExitSuccess>>)
    /\ UNCHANGED <<bitbucket, error_exitcode, version, doc, errors, tree, called,
                   current_time, emitted, now, host, clockReads, hostReads,
                   printed>>

Next ==
    \/ ParseXml
    \/ CheckVersion
    \/ FindErrors
    \/ ReadError
    \/ ReturnErrors
    \/ Except
    \/ Uncaught
    \/ GenerateTestSuite
    \/ BitbucketStart
    \/ BitbucketSuite
    \/ WriteReport
    \/ GenerateSuccess
    \/ WriteSuccess
    \/ Tick
    \/ Rename

Spec == Init /\ [][Next]_vars

-----------------------------------------------------------------------------
(* What the document says, read off the elements themselves *)

\* the file an error element belongs to: its location's file attribute, or ""
FileOf(e) == IF e.location = None THEN Str(<<>>) ELSE e.location[1].file

\* an element as the checker's schema emits it: every attribute present
ValidElement(e) ==
    /\ e.msg # None /\ e.severity # None /\ e.id # None /\ e.verbose # None
    /\ e.location # None =>
        /\ e.location[1].file # None
        /\ e.location[1].line # None
        /\ PyInt(e.location[1].line[1]).ok

ValidDoc == \A i \in 1..Len(doc) : ValidElement(doc[i])

\* N: the findings of the document; K: its distinct file keys
NFindings == Len(doc)
KFiles == Cardinality({FileOf(doc[i]) : i \in 1..Len(doc)})
FindingsOf(k) == Cardinality({i \in 1..Len(doc) : FileOf(doc[i]) = k})

RECURSIVE SumChildren(_)
\* the number of grandchildren of an element, summed over its children
SumChildren(children) ==
    IF children = <<>> THEN 0
    ELSE Len(Head(children).children) + SumChildren(Tail(children))

RECURSIVE SumAttr(_, _)
\* the sum of the integer attribute a over a sequence of elements
SumAttr(children, a) ==
    IF children = <<>> THEN 0
    ELSE PyInt(Head(children).attrib[a][1]).val + SumAttr(Tail(children), a)

IntAttr(e, a) == PyInt(e.attrib[a][1]).val

\* parse_cppcheck has returned its mapping to main
ParseReturned ==
    \/ pc \in {"parsed", "bb_loop", "write_report", "write_success"}
    \/ pc \in {"raised", "halted"} /\ raisedIn # "parse"

StandardBuilt == "generate_test_suite" \in called

\* generate_test_suite_bitbucket has returned its tree
BitbucketBuilt ==
    /\ "generate_test_suite_bitbucket" \in called
    /\ pc # "bb_loop"
    /\ raisedIn # "build"

-----------------------------------------------------------------------------
(* Claims *)

\* C1 (as claimed): for a valid document with N >= 1 findings over K file keys,
\* generate_test_suite yields K testcases holding N error elements in total, and
\* the suite's tests and errors attributes both equal N, failures equals 0.
C1_StandardCountsFindings ==
    (StandardBuilt /\ ValidDoc /\ NFindings >= 1) =>
        /\ tree.tag = "testsuite"
        /\ Len(tree.children) = KFiles
        /\ SumChildren(tree.children) = NFindings
        /\ IntAttr(tree, "tests") = NFindings
        /\ IntAttr(tree, "errors") = NFindings
        /\ IntAttr(tree, "failures") = 0

\* C2: for a valid document with N >= 1 findings over K file keys,
\* generate_test_suite_bitbucket returns K testsuites, the i-th with tests = errors
\* = the number of findings of the i-th file and failures = 0, summing to N; there
\* are N testcases in total and each holds exactly one error element.
C2_BitbucketCounts ==
    /\ (raisedIn = "build") => ~ValidDoc
    /\ BitbucketBuilt =>
        /\ tree.tag = "testsuites"
        /\ Len(tree.children) = KFiles
        /\ \A i \in 1..Len(tree.children) :
            LET suite == tree.children[i] IN
            /\ suite.tag = "testsuite"
            /\ IntAttr(suite, "tests") = FindingsOf(errors[i].key)
            /\ IntAttr(suite, "errors") = FindingsOf(errors[i].key)
            /\ IntAttr(suite, "failures") = 0
            /\ Len(suite.children) = FindingsOf(errors[i].key)
            /\ \A j \in 1..Len(suite.children) :
                /\ suite.children[j].tag = "testcase"
                /\ Len(suite.children[j].children) = 1
                /\ suite.children[j].children[1].tag = "error"
        /\ SumAttr(tree.children, "tests") = NFindings
        /\ SumAttr(tree.children, "errors") = NFindings
        /\ SumChildren(tree.children) = NFindings

\* C2 witness: a valid document with two findings in one file went through the
\* Bitbucket generator and was written.
C2_Witness ==
    /\ BitbucketBuilt /\ ValidDoc
    /\ NFindings = 2 /\ KFiles = 1
    /\ pc = "halted" /\ outcome = "FindingsReported"

\* the root of the document has been read
RootRead == pc # "start" /\ ~(exc.type \in {"IOError", "ParseError"})

\* C3 (as claimed): a document is accepted only when its version attribute equals
\* "2"; with any other value, or none, parse_cppcheck fails with ValueError before
\* a finding is read and the run ends in ParseFailure.
C3_OnlyVersionStringTwo ==
    (RootRead /\ version # Str(<<"2">>)) =>
        /\ pc \in {"version", "raised", "halted"}
        /\ doc = <<>>
        /\ pc = "raised" => exc.type = "ValueError"
        /\ pc = "halted" => outcome = "ParseFailure"

\* C3 (amended): a document is accepted only when its version attribute is present
\* and int() of it is 2; when it is absent, is no integer literal or is another
\* integer, parse_cppcheck fails with ValueError before a finding is read, nothing
\* is written and the run ends in ParseFailure with the failure exit code.
C3_VersionMustParseToTwo ==
    (RootRead /\ (version = None \/ ~PyInt(version[1]).ok
                                 \/ PyInt(version[1]).val # 2)) =>
        /\ pc \in {"version", "raised", "halted"}
        /\ doc = <<>> /\ errors = <<>>
        /\ pc = "raised" => exc.type = "ValueError" /\ raisedIn = "parse"
        /\ pc = "halted" =>
            /\ outcome = "ParseFailure"
            /\ exitCode = <<ExitFailure>>
            /\ outFile = "absent"

\* C3 witness: a run whose version attribute is " 3" ended in ParseFailure with
\* the unsupported-version diagnostic.
C3_Witness ==
    /\ pc = "halted" /\ outcome = "ParseFailure"
    /\ version = Str(<<" ", "3">>)
    /\ printed = <<"only supports version 2">>

\* C4 (as claimed): the exit code is decided by the outcome alone: failure when
\* parsing fails; with at least one finding, the error_exitcode given on the
\* command line, or 0 when none was given; 0 with zero findings.
C4_ExitCodeByOutcome ==
    pc = "halted" =>
        exitCode = << IF ~ParseReturned THEN ExitFailure
                      ELSE IF NFindings >= 1
                           THEN (IF error_exitcode = None THEN ExitSuccess
                                 ELSE error_exitcode[1])
                      ELSE ExitSuccess >>

\* C5: with zero findings the driver writes the single-suite success document
\* (tests=1, errors=0, failures=0, one testcase without an error element), with
\* or without --bitbucket, and calls neither generate_test_suite nor
\* generate_test_suite_bitbucket.
C5_ZeroFindingsSuccess ==
    (ParseReturned /\ NFindings = 0) =>
        /\ called \subseteq {"generate_single_success_test_suite"}
        /\ pc \in {"parsed", "write_success", "halted"}
        /\ pc # "parsed" =>
            /\ called = {"generate_single_success_test_suite"}
            /\ tree.tag = "testsuite"
            /\ tree.attrib.name = Str(CppcheckErrorsName)
            /\ IntAttr(tree, "tests") = 1
            /\ IntAttr(tree, "errors") = 0
            /\ IntAttr(tree, "failures") = 0
            /\ Len(tree.children) = 1
            /\ tree.children[1].tag = "testcase"
            /\ tree.children[1].attrib.name = Str(CppcheckSuccessName)
            /\ tree.children[1].children = <<>>
        /\ pc = "halted" =>
            /\ outcome = "NoFindings"
            /\ outFile = "complete" /\ writes = 1
            /\ exitCode = <<ExitSuccess>>

\* C5 witness: a run with --bitbucket and error_exitcode 3 on a document without
\* findings wrote the success document.
C5_Witness ==
    /\ pc = "halted" /\ outcome = "NoFindings"
    /\ bitbucket /\ error_exitcode = <<3>>
    /\ outFile = "complete"

\* C6: the output file is written only after parse_cppcheck returned; on a parse
\* failure nothing is written, in whole or in part; at most one write per run.
C6_WriteOnlyAfterParse ==
    /\ writes <= 1
    /\ (writes > 0 \/ outFile # "absent") => ParseReturned
    /\ ~ParseReturned => (writes = 0 /\ outFile = "absent" /\ tree = <<>>)
    /\ outcome = "ParseFailure" => (writes = 0 /\ outFile = "absent")

\* C6 witness: parsing failed on the second error element, after one finding had
\* been stored, and the output path is untouched.
C6_Witness ==
    /\ pc = "halted" /\ outcome = "ParseFailure"
    /\ Len(doc) = 2 /\ Len(errors) = 1
    /\ outFile = "absent" /\ writes = 0

\* C7 (as claimed): every run halts in ParseFailure (failure exit code, one
\* diagnostic printed), FindingsReported (report written) or NoFindings (success
\* report written), whatever the input.
C7_ThreeTerminalStates ==
    pc = "halted" =>
        \/ outcome = "ParseFailure" /\ exitCode = <<ExitFailure>> /\ Len(printed) = 1
        \/ outcome = "FindingsReported" /\ outFile = "complete"
        \/ outcome = "NoFindings" /\ outFile = "complete"
                                  /\ exitCode = <<ExitSuccess>>

\* the finding parse_cppcheck makes of an error element that it stores
FindingOf(e) ==
    [file |-> FileOf(e),
     line |-> IF e.location = None THEN 0 ELSE PyInt(e.location[1].line[1]).val,
     message |-> e.msg, severity |-> e.severity, error_id |-> e.id,
     verbose |-> e.verbose]

\* the elements stored so far: those iterated, less the one that raised
Stored ==
    IF raisedIn = "parse" /\ doc # <<>> THEN SubSeq(doc, 1, Len(doc) - 1) ELSE doc

RECURSIVE FindingsUnder(_, _)
\* the findings of the elements es whose file is k, in document order
FindingsUnder(es, k) ==
    IF es = <<>> THEN <<>>
    ELSE IF FileOf(Head(es)) = k
         THEN <<FindingOf(Head(es))>> \o FindingsUnder(Tail(es), k)
         ELSE FindingsUnder(Tail(es), k)

RECURSIVE FirstSeen(_, _)
\* the distinct files of the elements es, in first-seen order
FirstSeen(es, seen) ==
    IF es = <<>> THEN <<>>
    ELSE IF FileOf(Head(es)) \in seen THEN FirstSeen(Tail(es), seen)
    ELSE <<FileOf(Head(es))>> \o FirstSeen(Tail(es), seen \cup {FileOf(Head(es))})

\* C8: after any prefix of the error elements, every finding read is stored under
\* exactly one key, its own file ("" with line 0 without a location); each key
\* lists its findings in document order; keys iterate in first-seen order; no key
\* maps to an empty sequence.
C8_GroupedByOwnFile ==
    /\ Keys(errors) = FirstSeen(Stored, {})
    /\ \A i \in 1..Len(errors) :
        /\ errors[i].val = FindingsUnder(Stored, errors[i].key)
        /\ errors[i].val # <<>>
        /\ \A j \in 1..Len(errors[i].val) : errors[i].val[j].file = errors[i].key
    /\ \A i, j \in 1..Len(errors) : errors[i].key = errors[j].key => i = j
    /\ \A n \in 1..Len(Stored) :
        Stored[n].location = None =>
            \E i \in 1..Len(errors) :
                /\ errors[i].key = Str(<<>>)
                /\ \E j \in 1..Len(errors[i].val) :
                    errors[i].val[j] = [FindingOf(Stored[n]) EXCEPT !.line = 0]

\* C8 witness: two different findings without a location were read and sit under
\* the key "" in document order.
C8_Witness ==
    /\ pc = "loop" /\ Len(doc) = 2
    /\ Len(errors) = 1
    /\ errors[1].key = Str(<<>>)
    /\ Len(errors[1].val) = 2
    /\ errors[1].val[1].message = None
    /\ errors[1].val[2].message # None

\* C9 (as claimed): in generate_test_suite_bitbucket the clock is read and the
\* hostname resolved once per emitted suite; each suite's timestamp is the clock
\* value at its emission and its hostname the name resolved at its emission.
C9_ClockReadPerSuite ==
    "generate_test_suite_bitbucket" \in called =>
        /\ \A i \in 1..Len(tree.children) :
            /\ tree.children[i].attrib.timestamp = Str(isoformat(emitted[i].clock))
            /\ tree.children[i].attrib.hostname = Str(emitted[i].host)
        /\ BitbucketBuilt => (clockReads = KFiles /\ hostReads = KFiles)

\* C9 (amended): in generate_test_suite_bitbucket the clock is read once, before
\* the first suite, and every suite carries that one timestamp; the hostname is
\* resolved once per emitted suite (K times in all) and each suite's hostname is
\* the name resolved at its emission.
C9_ClockReadOnceHostPerSuite ==
    "generate_test_suite_bitbucket" \in called =>
        /\ clockReads = 1
        /\ hostReads = Len(emitted)
        /\ \A i \in 1..Len(tree.children) :
            /\ tree.children[i].attrib.timestamp = current_time
            /\ tree.children[i].attrib.timestamp = tree.children[1].attrib.timestamp
            /\ tree.children[i].attrib.hostname = Str(emitted[i].host)
        /\ BitbucketBuilt => (hostReads = KFiles /\ Len(tree.children) = KFiles)

\* C9 witness: two suites were emitted; the clock advanced and the machine was
\* renamed between the read of current_time and the second suite.
C9_Witness ==
    /\ BitbucketBuilt
    /\ Len(tree.children) = 2
    /\ current_time = Str(isoformat(0))
    /\ emitted[2].clock = 1
    /\ emitted[1].host = Host1 /\ emitted[2].host = Host2

\* C10 (as claimed): for every document parse_cppcheck accepts, attributes missing
\* or not, every attribute of the tree either generator builds is a str, the write
\* completes and the run ends in FindingsReported.
C10_ReportStageNeverFails ==
    (ParseReturned /\ NFindings >= 1) =>
        /\ pc # "raised"
        /\ tree # <<>> => Serializable(tree)
        /\ pc = "halted" => (outcome = "FindingsReported" /\ outFile = "complete")

====
